---- MODULE Spec2Model ----
(***************************************************************************)
(* The client-side router of the G3 console (advanced revision): route     *)
(* resolution, the home and detail render procedures, their refresh timers *)
(* and the fetches they await.  JavaScript runs one handler at a time, so  *)
(* each action is one handler run from its start to its next await (or to  *)
(* its end): a navigation, a popstate event, a timer firing or the         *)
(* continuation of a render procedure after a fetch settles.               *)
(* The data access operations of api and the duration stat card of the     *)
(* detail view are followed on their own, under ApiSpec and StatSpec; the  *)
(* router polling without an end is PollSpec.                              *)
(***************************************************************************)
EXTENDS Integers, Sequences, FiniteSets, TLC

\* The number of render cycles (renderHome / renderDetail calls that reach a
\* fetch) one run may start.
MaxCycles == 3

(***************************************************************************)
(* Paths.  A path is kept as the list of segments path.split('/') yields:  *)
(* '/' is <<"", "">>, '' is <<"">>, '/instance/a' is <<"","instance","a">>.*)
(***************************************************************************)
RootPath == <<"", "">>
EmptyPath == <<"">>
InstanceIds == {"a", "b"}

\* `/instance/${id}`
DetailPath(id) == <<"", "instance", id>>

\* The paths navigations and history entries are drawn from.
Paths ==
    {RootPath, <<"", "foo">>, <<"", "instance", "a", "extra">>}
        \cup {DetailPath(id) : id \in InstanceIds}

\* path === '/' || path === ''
IsHomePath(path) == path = RootPath \/ path = EmptyPath

\* path.startsWith('/instance/')
StartsWithInstance(path) ==
    Len(path) >= 3 /\ path[1] = "" /\ path[2] = "instance"

\* path.split('/')[2]
SplitId(path) == path[3]

\* null, for a timer handle (handles are positive, null is falsy) and for
\* currentInstanceId
NullHandle == 0
NullId == "null"

\* The bodies listInstances may answer with.
InstanceLists == {<< >>, <<"a">>, <<"a", "b">>, <<"b", "a">>}

\* No api operation has been invoked; no stat card has been rendered.
IdleCall == [op |-> "none", pc |-> "idle", requests |-> 0]
NoCard == [rendered |-> FALSE, stats |-> << >>, shown |-> 0]

\* The basic revision after its script has run: the router object literal,
\* what its mount point shows, no listener, no timer, no render under way.
BasicLoaded ==
    [currentRoute |-> RootPath, listeners |-> 0,
     innerHTML |-> [what |-> "blank", by |-> 0, arg |-> << >>],
     timers |-> {}, cycles |-> {}, seq |-> 0,
     ev |-> [op |-> "load", n |-> 0, calls |-> << >>, rejected |-> FALSE]]

VARIABLES
    currentRoute,          \* router.currentRoute
    refreshTimeout,        \* router.refreshTimeout: a handle or null
    detailRefreshTimeout,  \* router.detailRefreshTimeout: a handle or null
    currentInstanceId,     \* router.currentInstanceId
    initialized,           \* router.initialized
    renderInProgress,      \* router.renderInProgress
    location,              \* window.location.pathname
    listeners,             \* the number of popstate listeners registered
    initTimer,             \* the number of pending initial-route timers
    containerPresent,      \* whether #page-container is in the document
    innerHTML,             \* container.innerHTML, with the cycle that wrote it
    timers,                \* the browser's live (armed, not fired, not cleared) timers
    cycles,                \* the render calls suspended at an await
    seq,                   \* the number of render cycles started so far
    lastPath,              \* history: the path of the latest handleRoute call
    ev,                    \* history: the handler that ran last, and its calls
    apiCall,               \* the invocation of an api operation under way
    statCard,              \* the duration stat card of the detail view
    basic                  \* the router of the basic revision, and its page

vars ==
    <<currentRoute, refreshTimeout, detailRefreshTimeout, currentInstanceId,
      initialized, renderInProgress, location, listeners, initTimer,
      containerPresent, innerHTML, timers, cycles, seq, lastPath, ev,
      apiCall, statCard, basic>>

\* What was written to the mount point: the fragment, the render cycle that
\* wrote it (0: handleRoute itself, or nothing yet) and the data it shows.
Html(what, by, arg) == [what |-> what, by |-> by, arg |-> arg]

\* The route a render cycle was started for.
Owns(c, route) ==
    IF c.kind = "home" THEN IsHomePath(route) ELSE route = DetailPath(c.id)

\* The router object and its environment as one value, so that a handler is
\* the composition of the functions it calls.
St ==
    [currentRoute |-> currentRoute, refreshTimeout |-> refreshTimeout,
     detailRefreshTimeout |-> detailRefreshTimeout,
     currentInstanceId |-> currentInstanceId, initialized |-> initialized,
     renderInProgress |-> renderInProgress, location |-> location,
     listeners |-> listeners, initTimer |-> initTimer,
     containerPresent |-> containerPresent, innerHTML |-> innerHTML,
     timers |-> timers, cycles |-> cycles, seq |-> seq, lastPath |-> lastPath,
     calls |-> << >>, thrown |-> FALSE]

\* The handler op has run and has left the router as s.
Assign(s, op, n) ==
    /\ currentRoute' = s.currentRoute
    /\ refreshTimeout' = s.refreshTimeout
    /\ detailRefreshTimeout' = s.detailRefreshTimeout
    /\ currentInstanceId' = s.currentInstanceId
    /\ initialized' = s.initialized
    /\ renderInProgress' = s.renderInProgress
    /\ location' = s.location
    /\ listeners' = s.listeners
    /\ initTimer' = s.initTimer
    /\ containerPresent' = s.containerPresent
    /\ innerHTML' = s.innerHTML
    /\ timers' = s.timers
    /\ cycles' = s.cycles
    /\ seq' = s.seq
    /\ lastPath' = s.lastPath
    /\ ev' = [op |-> op, n |-> n, calls |-> s.calls, rejected |-> s.thrown]
    /\ UNCHANGED <<apiCall, statCard>>

Apply(s, op, n) ==
    /\ s.seq <= MaxCycles
    /\ Assign(s, op, n)
    /\ UNCHANGED basic

Called(s, name) == [s EXCEPT !.calls = Append(@, name)]

\* an awaited promise rejects, or a statement throws: the exception is in
\* flight until a catch takes it; one that no catch takes rejects the
\* promise of the handler
Throw(s) == [s EXCEPT !.thrown = TRUE]

(***************************************************************************)
(* The timer primitive.                                                    *)
(***************************************************************************)
\* clearTimeout(h): a handle that already fired or was cleared is ignored.
clearTimeout(s, h) == [s EXCEPT !.timers = {t \in @ : t.h # h}]

\* setTimeout(cb, delay) answering handle h.  Handles are unique; a render
\* cycle arms at most one timer, so the handle is named after the cycle.
setTimeout(s, h, kind, id) ==
    [s EXCEPT !.timers = @ \cup {[h |-> h, kind |-> kind, id |-> id]}]

(***************************************************************************)
(* router                                                                  *)
(***************************************************************************)
\* cancelRefreshes clearing the detail timer only
cancelRefreshesDetailOnly(s) ==
    LET s1 == Called(s, "cancelRefreshes")
    IN  IF s1.detailRefreshTimeout # NullHandle
        THEN [clearTimeout(s1, s1.detailRefreshTimeout)
                  EXCEPT !.detailRefreshTimeout = NullHandle]
        ELSE s1

cancelRefreshes(s) ==
    LET s0 == Called(s, "cancelRefreshes")
        s1 == IF s0.refreshTimeout # NullHandle
              THEN [clearTimeout(s0, s0.refreshTimeout)
                        EXCEPT !.refreshTimeout = NullHandle]
              ELSE s0
    IN  IF s1.detailRefreshTimeout # NullHandle
        THEN [clearTimeout(s1, s1.detailRefreshTimeout)
                  EXCEPT !.detailRefreshTimeout = NullHandle]
        ELSE s1

\* renderHome without its re-entrancy guard
renderHomeUnguarded(s) ==
    LET s0 == Called(s, "renderHome")
        n == s0.seq + 1
    IN  [s0 EXCEPT
            !.renderInProgress = TRUE,
            !.innerHTML = Html("spinnerHome", n, << >>),
            !.cycles = @ \cup {[n |-> n, kind |-> "home", id |-> "",
                                pc |-> "getInstances", left |-> FALSE,
                                afterFailure |-> FALSE]},
            !.seq = n]

\* renderHome with the guard placed after the spinner
renderHomeSpinsFirst(s) ==
    LET s0 == [Called(s, "renderHome") EXCEPT
                   !.innerHTML = Html("spinnerHome", s.seq + 1, << >>)]
        n == s0.seq + 1
    IN  IF s0.renderInProgress
        THEN s0
        ELSE [s0 EXCEPT
                !.renderInProgress = TRUE,
                !.cycles = @ \cup {[n |-> n, kind |-> "home", id |-> "",
                                    pc |-> "getInstances", left |-> FALSE,
                                    afterFailure |-> FALSE]},
                !.seq = n]

\* renderHome up to its await of api.getInstances()
renderHome(s) ==
    LET s0 == Called(s, "renderHome")
        n == s0.seq + 1
    IN  IF s0.renderInProgress
        THEN s0
        ELSE [s0 EXCEPT
                !.renderInProgress = TRUE,
                !.innerHTML = Html("spinnerHome", n, << >>),
                !.cycles = @ \cup {[n |-> n, kind |-> "home", id |-> "",
                                    pc |-> "getInstances", left |-> FALSE,
                                afterFailure |-> FALSE]},
                !.seq = n]

\* history: the mount point shows the error of a failed renderDetail(id)
ShowsDetailError(s, id) ==
    s.innerHTML.what = "errorDetail" /\ s.innerHTML.arg = <<id>>

\* renderDetail starting with the request for the logs
renderDetailLogsFirst(s, id) ==
    LET s0 == Called(s, "renderDetail")
        n == s0.seq + 1
    IN  [s0 EXCEPT
            !.currentInstanceId = id,
            !.innerHTML = Html("spinnerDetail", n, <<id>>),
            !.cycles = @ \cup {[n |-> n, kind |-> "detail", id |-> id,
                                pc |-> "getInstanceLogs", left |-> FALSE,
                                afterFailure |-> ShowsDetailError(s0, id)]},
            !.seq = n]

\* renderDetail up to its await of api.getInstance(id)
renderDetail(s, id) ==
    LET s0 == Called(s, "renderDetail")
        n == s0.seq + 1
    IN  [s0 EXCEPT
            !.currentInstanceId = id,
            !.innerHTML = Html("spinnerDetail", n, <<id>>),
            !.cycles = @ \cup {[n |-> n, kind |-> "detail", id |-> id,
                                pc |-> "getInstance", left |-> FALSE,
                                afterFailure |-> ShowsDetailError(s0, id)]},
            !.seq = n]

\* this.currentRoute = path (line 53); a cycle whose route this is not has
\* been navigated away from
setCurrentRoute(s, path) ==
    [s EXCEPT
        !.currentRoute = path,
        !.cycles = {[c EXCEPT !.left = @ \/ ~Owns(c, path)] : c \in @}]

\* the entry of handleRoute(path)
enterHandleRoute(s, path) ==
    [Called(s, "handleRoute") EXCEPT !.lastPath = path]

\* handleRoute assigning currentRoute only after it has found the container
handleRouteAssignLate(s, path) ==
    LET s0 == enterHandleRoute(s, path)
    IN  IF ~s0.containerPresent
        THEN s0
        ELSE LET s2 == cancelRefreshes(setCurrentRoute(s0, path))
             IN  IF IsHomePath(path)
                 THEN renderHome(s2)
                 ELSE IF StartsWithInstance(path)
                      THEN renderDetail(s2, SplitId(path))
                      ELSE [s2 EXCEPT !.innerHTML = Html("notFound", 0, << >>)]

\* handleRoute returning at once when the path is already the current route
handleRouteSkipsSameRoute(s, path) ==
    IF s.currentRoute = path /\ s.lastPath = path
    THEN enterHandleRoute(s, path)
    ELSE LET s1 == setCurrentRoute(enterHandleRoute(s, path), path)
         IN  IF ~s1.containerPresent
             THEN s1
             ELSE LET s2 == cancelRefreshes(s1)
                  IN  IF IsHomePath(path)
                      THEN renderHome(s2)
                      ELSE IF StartsWithInstance(path)
                           THEN renderDetail(s2, SplitId(path))
                           ELSE [s2 EXCEPT !.innerHTML = Html("notFound", 0, << >>)]

handleRoute(s, path) ==
    LET s1 == setCurrentRoute(enterHandleRoute(s, path), path)
    IN  IF ~s1.containerPresent
        THEN s1
        ELSE LET s2 == cancelRefreshes(s1)
             IN  IF IsHomePath(path)
                 THEN renderHome(s2)
                 ELSE IF StartsWithInstance(path)
                      THEN renderDetail(s2, SplitId(path))
                      ELSE [s2 EXCEPT !.innerHTML = Html("notFound", 0, << >>)]

\* window.history.pushState({}, '', path)
pushState(s, path) == [Called(s, "pushState") EXCEPT !.location = path]

\* navigate without the address update
navigateNoPush(s, path) ==
    handleRoute(cancelRefreshes(s), path)

navigate(s, path) ==
    handleRoute(pushState(cancelRefreshes(s), path), path)

\* init without its check of the initialized flag
initUnguarded(s) ==
    [s EXCEPT !.initialized = TRUE,
              !.listeners = @ + 1,
              !.initTimer = @ + 1]

init(s) ==
    IF s.initialized
    THEN s
    ELSE [s EXCEPT !.initialized = TRUE,
                   !.listeners = @ + 1,
                   !.initTimer = @ + 1]

(***************************************************************************)
(* The continuations of the render procedures, run when a fetch settles.   *)
(***************************************************************************)
\* renderHome without its check of the route after the fetch
RouteLeftHomeUnchecked(s) == FALSE

\* line 95: this.currentRoute !== '/' && this.currentRoute !== ''
RouteLeftHome(s) == ~IsHomePath(s.currentRoute)

\* line 120: this.currentRoute === '/' || this.currentRoute === ''
StillOnHome(s) == IsHomePath(s.currentRoute)

\* renderDetail without its check of the route after the fetches
RouteLeftDetailUnchecked(s, id) == FALSE

\* line 147: this.currentRoute !== `/instance/${id}`
RouteLeftDetail(s, id) == s.currentRoute # DetailPath(id)

\* the check of line 235 with !== for ===
StillOnDetailInverted(s, id) == s.currentRoute # DetailPath(id)

\* line 235: this.currentRoute === `/instance/${id}`
StillOnDetail(s, id) == s.currentRoute = DetailPath(id)

\* the catch of renderHome scheduling a retry
renderHomeCatchRetries(s, c) ==
    [setTimeout(s, c.n, "home", "") EXCEPT
        !.thrown = FALSE,
        !.innerHTML = Html("errorHome", c.n, << >>),
        !.refreshTimeout = c.n]

\* lines 127-129: the catch of renderHome
renderHomeCatch(s, c) ==
    [s EXCEPT !.thrown = FALSE, !.innerHTML = Html("errorHome", c.n, << >>)]

\* the flag reset placed at the end of the rendering instead of in a finally:
\* the route-mismatch return skips it
renderHomeFinallySkippedOnAbort(s) ==
    IF IsHomePath(s.currentRoute) THEN [s EXCEPT !.renderInProgress = FALSE] ELSE s

\* the finally of renderHome cancelling the refreshes as well
renderHomeFinallyCancels(s) ==
    [cancelRefreshes(s) EXCEPT !.renderInProgress = FALSE]

\* lines 130-133: the finally of renderHome
renderHomeFinally(s) == [s EXCEPT !.renderInProgress = FALSE]

\* components.instancePanel(instance, stats, instance.latest_message)
instancePanel(instance) == [panel |-> instance]

\* the loop of lines 108-111 with html = panel + html in its body
RECURSIVE forInstancesPrepending(_, _)
forInstancesPrepending(html, instances) ==
    IF instances = << >>
    THEN html
    ELSE forInstancesPrepending(<<instancePanel(Head(instances))>> \o html,
                                Tail(instances))

instancesListPrepending(instances) == forInstancesPrepending(<< >>, instances)

\* lines 108-111: for (const instance of instances) html += panel
RECURSIVE forInstances(_, _)
forInstances(html, instances) ==
    IF instances = << >>
    THEN html
    ELSE forInstances(Append(html, instancePanel(Head(instances))),
                      Tail(instances))

\* lines 107-112: the list markup, as the sequence of its panels
instancesList(instances) == forInstances(<< >>, instances)

\* renderHome returning after the empty-state message, before the timer (as
\* the basic revision does)
renderHomeResumeEmptyReturns(s, c, r) ==
    LET s0 == [s EXCEPT !.cycles = @ \ {c}]
        try ==
            IF ~r.ok
            THEN renderHomeCatch(Throw(s0), c)
            ELSE IF RouteLeftHome(s0)
                 THEN s0
                 ELSE IF Len(r.body) = 0
                      THEN [s0 EXCEPT !.innerHTML = Html("emptyState", c.n, << >>)]
                      ELSE [setTimeout(s0, c.n, "home", "") EXCEPT
                                !.innerHTML = Html("instancesList", c.n, instancesList(r.body)),
                                !.refreshTimeout = c.n]
    IN  renderHomeFinally(try)

\* renderHome from the settling of api.getInstances() to its end; r is the
\* outcome: api.getInstances throws on a non-success status
renderHomeResume(s, c, r) ==
    LET s0 == [s EXCEPT !.cycles = @ \ {c}]
        written ==
            [s0 EXCEPT !.innerHTML =
                IF Len(r.body) = 0
                THEN Html("emptyState", c.n, << >>)
                ELSE Html("instancesList", c.n, instancesList(r.body))]
        try ==
            IF ~r.ok
            THEN renderHomeCatch(Throw(s0), c)
            ELSE IF RouteLeftHome(s0)
                 THEN s0
                 ELSE IF StillOnHome(written)
                      THEN [setTimeout(written, c.n, "home", "")
                                EXCEPT !.refreshTimeout = c.n]
                      ELSE written
    IN  renderHomeFinally(try)

\* renderDetail with no catch: the exception leaves the procedure
renderDetailNoCatch(s, c) == s

\* lines 240-243: the catch of renderDetail
renderDetailCatch(s, c) ==
    [s EXCEPT !.thrown = FALSE, !.innerHTML = Html("errorDetail", c.n, <<c.id>>)]

\* renderDetail going on to the logs when api.getInstance(id) has failed
getInstanceResumeSwallowsFailure(s, c, ok) ==
    [s EXCEPT !.cycles = (@ \ {c}) \cup {[c EXCEPT !.pc = "getInstanceLogs"]}]

\* renderDetail from the settling of api.getInstance(id) to the await of
\* api.getInstanceLogs(id), or to the catch
getInstanceResume(s, c, ok) ==
    IF ok
    THEN [s EXCEPT !.cycles = (@ \ {c}) \cup {[c EXCEPT !.pc = "getInstanceLogs"]}]
    ELSE renderDetailCatch(Throw([s EXCEPT !.cycles = @ \ {c}]), c)

\* renderDetail scheduling its refresh before it checks the route
getInstanceLogsResumeArmsFirst(s, c, ok) ==
    LET s0 == [s EXCEPT !.cycles = @ \ {c}]
        armed == [setTimeout(s0, c.n, "detail", c.id)
                      EXCEPT !.detailRefreshTimeout = c.n]
    IN  IF ~ok
        THEN renderDetailCatch(Throw(s0), c)
        ELSE IF RouteLeftDetail(armed, c.id)
             THEN armed
             ELSE [armed EXCEPT !.innerHTML = Html("detailView", c.n, <<c.id>>)]

\* renderDetail from the settling of api.getInstanceLogs(id) to its end
getInstanceLogsResume(s, c, ok) ==
    LET s0 == [s EXCEPT !.cycles = @ \ {c}]
        written == [s0 EXCEPT !.innerHTML = Html("detailView", c.n, <<c.id>>)]
    IN  IF ~ok
        THEN renderDetailCatch(Throw(s0), c)
        ELSE IF RouteLeftDetail(s0, c.id)
             THEN s0
             ELSE IF StillOnDetail(written, c.id)
                  THEN [setTimeout(written, c.n, "detail", c.id)
                            EXCEPT !.detailRefreshTimeout = c.n]
                  ELSE written

\* the callback of a refresh timer
timerCallback(s, t) ==
    IF t.kind = "home" THEN renderHome(s) ELSE renderDetail(s, t.id)

(***************************************************************************)
(* The state after the script has run: the router object literal, no       *)
(* listener, no timer, and the page at any of the paths.                   *)
(***************************************************************************)
Init ==
    /\ currentRoute = RootPath
    /\ refreshTimeout = NullHandle
    /\ detailRefreshTimeout = NullHandle
    /\ currentInstanceId = NullId
    /\ initialized = FALSE
    /\ renderInProgress = FALSE
    /\ location \in Paths
    /\ listeners = 0
    /\ initTimer = 0
    /\ containerPresent \in BOOLEAN
    /\ innerHTML = Html("blank", 0, << >>)
    /\ timers = {}
    /\ cycles = {}
    /\ seq = 0
    /\ lastPath = << >>
    /\ ev = [op |-> "load", n |-> 0, calls |-> << >>, rejected |-> FALSE]
    /\ apiCall = IdleCall
    /\ statCard = NoCard
    /\ basic = BasicLoaded

\* router.init() is called by the page
RouterInit ==
    /\ listeners <= 1
    /\ Apply(init(St), "init", 0)

\* the document gets its #page-container
DomReady ==
    /\ ~containerPresent
    /\ Apply([St EXCEPT !.containerPresent = TRUE], "domReady", 0)

\* the timer init() armed fires
InitialRoute ==
    /\ initTimer > 0
    /\ Apply(handleRoute([St EXCEPT !.initTimer = @ - 1], location),
             "initialRoute", 0)

\* an in-app link calls router.navigate(path)
Navigate ==
    \E path \in Paths :
        /\ Len(path) > 0
        /\ Apply(navigate(St, path), "navigate", 0)

\* back/forward: the browser moves to a history entry, then runs the listener
Popstate ==
    \E path \in Paths :
        /\ listeners > 0
        /\ Apply(handleRoute([St EXCEPT !.location = path], path), "popstate", 0)

\* a refresh timer fires: it is no longer live, and its callback runs
TimerFires ==
    \E t \in timers :
        /\ t.h # NullHandle
        /\ Apply(timerCallback([St EXCEPT !.timers = @ \ {t}], t), "timer", t.h)

\* api.getInstances() settles
GetInstancesSettles ==
    \E c \in cycles :
        /\ c.pc = "getInstances"
        /\ \/ \E body \in InstanceLists :
                 Apply(renderHomeResume(St, c, [ok |-> TRUE, body |-> body]),
                       "getInstancesOk", c.n)
           \/ Apply(renderHomeResume(St, c, [ok |-> FALSE, body |-> << >>]),
                    "getInstancesFail", c.n)

\* api.getInstance(id) settles
GetInstanceSettles ==
    \E c \in cycles :
        /\ c.pc = "getInstance"
        /\ \/ Apply(getInstanceResume(St, c, TRUE), "getInstanceOk", c.n)
           \/ Apply(getInstanceResume(St, c, FALSE), "getInstanceFail", c.n)

\* api.getInstanceLogs(id) settles
GetInstanceLogsSettles ==
    \E c \in cycles :
        /\ c.pc = "getInstanceLogs"
        /\ \/ Apply(getInstanceLogsResume(St, c, TRUE), "getInstanceLogsOk", c.n)
           \/ Apply(getInstanceLogsResume(St, c, FALSE), "getInstanceLogsFail", c.n)

Next ==
    \/ RouterInit
    \/ DomReady
    \/ InitialRoute
    \/ Navigate
    \/ Popstate
    \/ TimerFires
    \/ GetInstancesSettles
    \/ GetInstanceSettles
    \/ GetInstanceLogsSettles

Spec == Init /\ [][Next]_vars

(***************************************************************************)
(* Polling.  The router with a server that answers every fetch             *)
(* successfully, run without an end: timers that are armed fire, fetches   *)
(* that are awaited settle.  A handle or a cycle number is only ever       *)
(* compared with another one, so after each handler the numbers still      *)
(* referred to are renamed 1..k in their order, which keeps them bounded.  *)
(***************************************************************************)
\* The number of render cycles and timers that may be alive when a route
\* resolution is taken.
MaxLive == 2

Used(s, n) ==
    ({c.n : c \in s.cycles} \cup {t.h : t \in s.timers}
        \cup {s.refreshTimeout, s.detailRefreshTimeout, s.innerHTML.by, n})
      \ {NullHandle}

Rank(U, x) == Cardinality({u \in U : u <= x})

Renumber(s, n) ==
    LET U == Used(s, n)
    IN  [s EXCEPT
            !.refreshTimeout = Rank(U, @),
            !.detailRefreshTimeout = Rank(U, @),
            !.innerHTML = [@ EXCEPT !.by = Rank(U, @)],
            !.timers = {[t EXCEPT !.h = Rank(U, @)] : t \in @},
            !.cycles = {[c EXCEPT !.n = Rank(U, @)] : c \in @},
            !.seq = Cardinality(U)]

\* The handler op has run and has left the router as s, up to the renaming.
Poll(s, op, n) ==
    \E s1 \in {s} :
        \E r \in {Renumber(s1, n)} :
            /\ Assign(r, op, Rank(Used(s1, n), n))
            /\ UNCHANGED basic

Alive == Cardinality(cycles) + Cardinality(timers)

PollRouterInit ==
    /\ ~initialized
    /\ Poll(init(St), "init", 0)

PollDomReady ==
    /\ ~containerPresent
    /\ Poll([St EXCEPT !.containerPresent = TRUE], "domReady", 0)

PollInitialRoute ==
    /\ initTimer > 0
    /\ Alive < MaxLive
    /\ Poll(handleRoute([St EXCEPT !.initTimer = @ - 1], location),
            "initialRoute", 0)

PollNavigate ==
    \E path \in Paths :
        /\ Alive < MaxLive
        /\ Poll(navigate(St, path), "navigate", 0)

PollPopstate ==
    \E path \in Paths :
        /\ listeners > 0
        /\ Alive < MaxLive
        /\ Poll(handleRoute([St EXCEPT !.location = path], path), "popstate", 0)

PollTimerFires ==
    \E t \in timers :
        /\ t.h # NullHandle
        /\ Poll(timerCallback([St EXCEPT !.timers = @ \ {t}], t), "timer", t.h)

PollGetInstances ==
    \E c \in cycles :
        /\ c.pc = "getInstances"
        /\ \E body \in InstanceLists :
               Poll(renderHomeResume(St, c, [ok |-> TRUE, body |-> body]),
                    "getInstancesOk", c.n)

PollGetInstance ==
    \E c \in cycles :
        /\ c.pc = "getInstance"
        /\ Poll(getInstanceResume(St, c, TRUE), "getInstanceOk", c.n)

PollGetInstanceLogs ==
    \E c \in cycles :
        /\ c.pc = "getInstanceLogs"
        /\ Poll(getInstanceLogsResume(St, c, TRUE), "getInstanceLogsOk", c.n)

PollNext ==
    \/ PollRouterInit
    \/ PollDomReady
    \/ PollInitialRoute
    \/ PollNavigate
    \/ PollPopstate
    \/ PollTimerFires
    \/ PollGetInstances
    \/ PollGetInstance
    \/ PollGetInstanceLogs

\* Armed timers eventually fire and awaited fetches eventually settle.
PollSpec ==
    /\ Init
    /\ [][PollNext]_vars
    /\ WF_vars(PollTimerFires)
    /\ WF_vars(PollGetInstances)
    /\ WF_vars(PollGetInstance)
    /\ WF_vars(PollGetInstanceLogs)
(***************************************************************************)
(* The router of the basic revision: no timer handles, no cancelRefreshes, *)
(* no re-entrancy guard; a timer callback checks the route when it fires.  *)
(* Its handlers are functions of the record b kept in the variable basic.  *)
(***************************************************************************)
BasicCycle(n, kind, id, pc) == [n |-> n, kind |-> kind, id |-> id, pc |-> pc]

\* renderHome up to its await of api.getInstances()
basicRenderHome(b) ==
    LET n == b.seq + 1
    IN  [Called(b, "renderHome") EXCEPT
            !.innerHTML = Html("spinnerHome", n, << >>),
            !.cycles = @ \cup {BasicCycle(n, "home", "", "getInstances")},
            !.seq = n]

\* renderDetail up to its await of api.getInstance(id)
basicRenderDetail(b, id) ==
    LET n == b.seq + 1
    IN  [Called(b, "renderDetail") EXCEPT
            !.innerHTML = Html("spinnerDetail", n, <<id>>),
            !.cycles = @ \cup {BasicCycle(n, "detail", id, "getInstance")},
            !.seq = n]

\* handleRoute: with no #page-container the first write to container
\* throws, outside any try
basicHandleRoute(b, path) ==
    LET b1 == [Called(b, "handleRoute") EXCEPT !.currentRoute = path]
    IN  IF ~b1.containerPresent
        THEN Throw(b1)
        ELSE IF IsHomePath(path)
             THEN basicRenderHome(b1)
             ELSE IF StartsWithInstance(path)
                  THEN basicRenderDetail(b1, SplitId(path))
                  ELSE [b1 EXCEPT !.innerHTML = Html("notFound", 0, << >>)]

basicNavigate(b, path) ==
    basicHandleRoute([Called(b, "pushState") EXCEPT !.location = path], path)

basicInit(b) ==
    basicHandleRoute([b EXCEPT !.listeners = @ + 1], b.location)

\* renderHome from the settling of api.getInstances() to its end
basicRenderHomeResume(b, c, r) ==
    LET b0 == [b EXCEPT !.cycles = @ \ {c}]
    IN  IF ~r.ok
        THEN [b0 EXCEPT !.innerHTML = Html("errorHome", c.n, << >>)]
        ELSE IF Len(r.body) = 0
             THEN [b0 EXCEPT !.innerHTML = Html("emptyState", c.n, << >>)]
             ELSE [setTimeout(b0, c.n, "home", "") EXCEPT
                      !.innerHTML =
                          Html("instancesList", c.n, instancesList(r.body))]

\* renderDetail from the settling of api.getInstance(id)
basicGetInstanceResume(b, c, ok) ==
    IF ok
    THEN [b EXCEPT !.cycles = (@ \ {c}) \cup {[c EXCEPT !.pc = "getInstanceLogs"]}]
    ELSE [b EXCEPT !.cycles = @ \ {c},
                   !.innerHTML = Html("errorDetail", c.n, <<c.id>>)]

\* renderDetail from the settling of api.getInstanceLogs(id) to its end
basicGetInstanceLogsResume(b, c, ok) ==
    LET b0 == [b EXCEPT !.cycles = @ \ {c}]
    IN  IF ok
        THEN [setTimeout(b0, c.n, "detail", c.id) EXCEPT
                 !.innerHTML = Html("detailView", c.n, <<c.id>>)]
        ELSE [b0 EXCEPT !.innerHTML = Html("errorDetail", c.n, <<c.id>>)]

\* a timer callback that calls its render procedure unconditionally
basicTimerCallbackUnchecked(b, t) ==
    IF t.kind = "home" THEN basicRenderHome(b) ELSE basicRenderDetail(b, t.id)

\* the callbacks of lines 58-62 and 158-162
basicTimerCallback(b, t) ==
    IF t.kind = "home"
    THEN IF b.currentRoute = RootPath THEN basicRenderHome(b) ELSE b
    ELSE IF b.currentRoute = DetailPath(t.id)
         THEN basicRenderDetail(b, t.id)
         ELSE b

\* The basic router and the page it runs in, as a handler finds them.
BasicSt ==
    [currentRoute |-> basic.currentRoute, listeners |-> basic.listeners,
     innerHTML |-> basic.innerHTML, timers |-> basic.timers,
     cycles |-> basic.cycles, seq |-> basic.seq,
     location |-> location, containerPresent |-> containerPresent,
     calls |-> << >>, thrown |-> FALSE]

\* The handler op has run and has left the basic router and its page as b.
BasicAssign(b, op, n) ==
    basic' = [currentRoute |-> b.currentRoute, listeners |-> b.listeners,
              innerHTML |-> b.innerHTML, timers |-> b.timers,
              cycles |-> b.cycles, seq |-> b.seq,
              ev |-> [op |-> op, n |-> n, calls |-> b.calls,
                      rejected |-> b.thrown]]

BasicApply(b, op, n) ==
    /\ b.seq <= MaxCycles
    /\ Cardinality(b.cycles) + Cardinality(b.timers) <= MaxLive
    /\ BasicAssign(b, op, n)
    /\ location' = b.location
    /\ UNCHANGED <<currentRoute, refreshTimeout, detailRefreshTimeout,
                   currentInstanceId, initialized, renderInProgress,
                   listeners, initTimer, containerPresent, innerHTML, timers,
                   cycles, seq, lastPath, ev, apiCall, statCard>>

\* the page calls router.init(), once
BasicInit ==
    /\ basic.listeners = 0
    /\ BasicApply(basicInit(BasicSt), "init", 0)

BasicNavigate ==
    \E path \in Paths :
        /\ containerPresent
        /\ BasicApply(basicNavigate(BasicSt, path), "navigate", 0)

BasicPopstate ==
    \E path \in Paths :
        /\ basic.listeners > 0
        /\ BasicApply(basicHandleRoute([BasicSt EXCEPT !.location = path], path),
                      "popstate", 0)

BasicTimerFires ==
    \E t \in basic.timers :
        /\ t.h # NullHandle
        /\ BasicApply(basicTimerCallback([BasicSt EXCEPT !.timers = @ \ {t}], t),
                      "timer", t.h)

BasicGetInstancesSettles ==
    \E c \in basic.cycles :
        /\ c.pc = "getInstances"
        /\ \/ \E body \in InstanceLists :
                 BasicApply(basicRenderHomeResume(
                                BasicSt, c, [ok |-> TRUE, body |-> body]),
                            "getInstancesOk", c.n)
           \/ BasicApply(basicRenderHomeResume(
                             BasicSt, c, [ok |-> FALSE, body |-> << >>]),
                         "getInstancesFail", c.n)

BasicGetInstanceSettles ==
    \E c \in basic.cycles :
        /\ c.pc = "getInstance"
        /\ \/ BasicApply(basicGetInstanceResume(BasicSt, c, TRUE),
                         "getInstanceOk", c.n)
           \/ BasicApply(basicGetInstanceResume(BasicSt, c, FALSE),
                         "getInstanceFail", c.n)

BasicGetInstanceLogsSettles ==
    \E c \in basic.cycles :
        /\ c.pc = "getInstanceLogs"
        /\ \/ BasicApply(basicGetInstanceLogsResume(BasicSt, c, TRUE),
                         "getInstanceLogsOk", c.n)
           \/ BasicApply(basicGetInstanceLogsResume(BasicSt, c, FALSE),
                         "getInstanceLogsFail", c.n)

BasicNext ==
    \/ BasicInit
    \/ BasicNavigate
    \/ BasicPopstate
    \/ BasicTimerFires
    \/ BasicGetInstancesSettles
    \/ BasicGetInstanceSettles
    \/ BasicGetInstanceLogsSettles

BasicSpec == Init /\ [][BasicNext]_vars

(***************************************************************************)
(* The two revisions side by side on navigation-free runs: each router is  *)
(* loaded into a page at the same path, nothing navigates, and the server  *)
(* answers the k-th fetch of either router with the same successful        *)
(* response.  A fetch both routers await settles for both in one step; the *)
(* advanced router's fetch settles alone once the basic router has come to *)
(* rest.  The document is as it was at load throughout.                    *)
(***************************************************************************)
\* the basic router has handled its initial route and has nothing pending
BasicEnded ==
    basic.listeners > 0 /\ basic.cycles = {} /\ basic.timers = {}

\* the advanced router has handled its initial route and has nothing pending
AdvancedEnded ==
    initialized /\ initTimer = 0 /\ cycles = {} /\ timers = {}

\* the fetch of the basic router that is the same request as that of c
SameFetch(c) == {d \in basic.cycles : d.n = c.n /\ d.pc = c.pc}

\* The fetch of c settles, leaving the advanced router as s; where the
\* basic router awaits the same fetch, cycle d of it resumes and leaves the
\* basic router as bs[d].
RefSettle(c, s, bs, op) ==
    IF SameFetch(c) # {}
    THEN \E d \in SameFetch(c) :
            /\ Assign(s, op, c.n)
            /\ BasicAssign(bs[d], op, d.n)
    ELSE /\ BasicEnded
         /\ Apply(s, op, c.n)

RefGetInstancesSettles ==
    \E c \in cycles, body \in InstanceLists :
        LET r == [ok |-> TRUE, body |-> body]
        IN  /\ c.pc = "getInstances"
            /\ RefSettle(c, renderHomeResume(St, c, r),
                         [d \in SameFetch(c) |->
                             basicRenderHomeResume(BasicSt, d, r)],
                         "getInstancesOk")

RefGetInstanceSettles ==
    \E c \in cycles :
        /\ c.pc = "getInstance"
        /\ RefSettle(c, getInstanceResume(St, c, TRUE),
                     [d \in SameFetch(c) |->
                         basicGetInstanceResume(BasicSt, d, TRUE)],
                     "getInstanceOk")

RefGetInstanceLogsSettles ==
    \E c \in cycles :
        /\ c.pc = "getInstanceLogs"
        /\ RefSettle(c, getInstanceLogsResume(St, c, TRUE),
                     [d \in SameFetch(c) |->
                         basicGetInstanceLogsResume(BasicSt, d, TRUE)],
                     "getInstanceLogsOk")

RefNext ==
    \/ RouterInit
    \/ InitialRoute
    \/ TimerFires
    \/ BasicInit
    \/ BasicTimerFires
    \/ RefGetInstancesSettles
    \/ RefGetInstanceSettles
    \/ RefGetInstanceLogsSettles

RefSpec == Init /\ [][RefNext]_vars

(***************************************************************************)
(* api: the data access operations.  One invocation at a time is followed  *)
(* from its fetch to the value it returns or the Error it throws.          *)
(***************************************************************************)
ApiOps ==
    {"getInstances", "getInstance", "getInstanceLogs", "launchInstance",
     "killInstance", "restartInstance", "getState", "saveState"}

\* The text of the Error an operation throws on a non-success status.
FailureMessage(op) ==
    CASE op = "getInstances" -> "Failed to fetch instances"
      [] op = "getInstance" -> "Failed to fetch instance"
      [] op = "getInstanceLogs" -> "Failed to fetch logs"
      [] op = "launchInstance" -> "Failed to launch instance"
      [] op = "killInstance" -> "Failed to kill instance"
      [] op = "restartInstance" -> "Failed to restart instance"
      [] op = "getState" -> "Failed to fetch state"
      [] op = "saveState" -> "Failed to save state"

\* A response body: whether it parses as JSON, and its message and error
\* fields ("" when the field is absent or empty, which || takes alike).
NoBody == [parses |-> FALSE, message |-> "", error |-> ""]
Bodies ==
    {NoBody} \cup
    {[parses |-> TRUE, message |-> m, error |-> e] :
        m \in {"", "quota exceeded"}, e \in {"", "bad workspace"}}

Statuses == {200, 201, 400, 404, 500}
Responses == {[status |-> st, body |-> b] : st \in Statuses, b \in Bodies}
NoResponse == [status |-> 0, body |-> NoBody]

\* response.ok
ResponseOk(resp) == resp.status >= 200 /\ resp.status <= 299

\* What an invocation ends with: the value returned, or the Error thrown
\* (its text and, where the text carries one, the status code).
NoResult == [kind |-> "none", body |-> NoBody, text |-> "", status |-> 0]
Returned(b) == [kind |-> "returned", body |-> b, text |-> "", status |-> 0]
Failed(text, status) ==
    [kind |-> "failed", body |-> NoBody, text |-> text, status |-> status]

\* the call of fetch(...) each operation starts with
fetch(op) ==
    [op |-> op, pc |-> "fetch", requests |-> 1,
     response |-> NoResponse, result |-> NoResult]

\* errorData.message || errorData.error || 'Failed to launch instance'
launchErrorMessage(b) ==
    IF b.message # "" THEN b.message
    ELSE IF b.error # "" THEN b.error
    ELSE "Failed to launch instance"

\* the try block of launchInstance: it ends by throwing, either the
\* rejection of response.json() or the Error it builds from the body
launchTry(resp) ==
    IF resp.body.parses
    THEN Failed(launchErrorMessage(resp.body), 0)
    ELSE Failed("SyntaxError", 0)

\* the catch block of launchInstance: it takes whatever the try block threw
launchCatch(e, resp) == Failed("Failed to launch instance", resp.status)

\* an operation that fetches again when the status is non-success
fetchResumeRetries(call, resp) ==
    IF ~ResponseOk(resp)
    THEN IF call.requests < 2
         THEN [call EXCEPT !.requests = @ + 1]
         ELSE [call EXCEPT !.response = resp, !.pc = "done",
                           !.result = Failed(FailureMessage(call.op), 0)]
    ELSE [call EXCEPT !.response = resp, !.pc = "json"]

\* an operation from the settling of its fetch to its next await or its end
fetchResume(call, resp) ==
    IF ~ResponseOk(resp)
    THEN IF call.op = "launchInstance"
         THEN [call EXCEPT !.response = resp, !.pc = "errorJson"]
         ELSE [call EXCEPT !.response = resp, !.pc = "done",
                           !.result = Failed(FailureMessage(call.op), 0)]
    ELSE [call EXCEPT !.response = resp, !.pc = "json"]

\* return response.json()
jsonResume(call) ==
    [call EXCEPT
        !.pc = "done",
        !.result = IF call.response.body.parses
                   THEN Returned(call.response.body)
                   ELSE Failed("SyntaxError", 0)]

\* launchInstance from the settling of response.json() in its try block
errorJsonResume(call) ==
    [call EXCEPT
        !.pc = "done",
        !.result = launchCatch(launchTry(call.response), call.response)]

RouterVars ==
    <<currentRoute, refreshTimeout, detailRefreshTimeout, currentInstanceId,
      initialized, renderInProgress, location, listeners, initTimer,
      containerPresent, innerHTML, timers, cycles, seq, lastPath, ev, basic>>

\* the page calls an operation of api
ApiInvoke ==
    \E op \in ApiOps :
        /\ apiCall.pc \in {"idle", "done"}
        /\ apiCall' = fetch(op)
        /\ UNCHANGED <<RouterVars, statCard>>

\* the fetch settles with a response
FetchSettles ==
    \E resp \in Responses :
        /\ apiCall.pc = "fetch"
        /\ apiCall' = fetchResume(apiCall, resp)
        /\ UNCHANGED <<RouterVars, statCard>>

\* the fetch rejects (no response: the network failed)
FetchRejects ==
    /\ apiCall.pc = "fetch"
    /\ apiCall' = [apiCall EXCEPT !.pc = "done",
                                  !.result = Failed("TypeError", 0)]
    /\ UNCHANGED <<RouterVars, statCard>>

JsonSettles ==
    /\ apiCall.pc = "json"
    /\ apiCall' = jsonResume(apiCall)
    /\ UNCHANGED <<RouterVars, statCard>>

ErrorJsonSettles ==
    /\ apiCall.pc = "errorJson"
    /\ apiCall' = errorJsonResume(apiCall)
    /\ UNCHANGED <<RouterVars, statCard>>

ApiNext ==
    \/ ApiInvoke
    \/ FetchSettles
    \/ FetchRejects
    \/ JsonSettles
    \/ ErrorJsonSettles

ApiSpec == Init /\ [][ApiNext]_vars

(***************************************************************************)
(* The duration stat card of the detail view.                              *)
(***************************************************************************)
\* The longest duration (in seconds) a stat card is rendered for.
MaxSecs == 130

\* instance.stats: absent, or a record with its duration_secs
StatsValues ==
    {[present |-> FALSE, duration_secs |-> 0]} \cup
    {[present |-> TRUE, duration_secs |-> d] : d \in 0..MaxSecs}

\* instance.stats?.duration_secs || 0
durationSecs(stats) ==
    IF stats.present /\ stats.duration_secs # 0 THEN stats.duration_secs ELSE 0

\* Math.floor(num / den)
MathFloor(num, den) == num \div den

\* Math.round(num / den): the integer nearest to the quotient, the greater
\* one of two equally near, which is floor(num / den + 1/2)
MathRound(num, den) == (2 * num + den) \div (2 * den)

\* Math.round((instance.stats?.duration_secs || 0) / 60)
durationStat(stats) == MathRound(durationSecs(stats), 60)

\* the detail view renders the duration card of an instance
RenderStatCard ==
    \E stats \in StatsValues :
        /\ statCard' = [rendered |-> TRUE, stats |-> stats,
                        shown |-> durationStat(stats)]
        /\ UNCHANGED <<RouterVars, apiCall>>

StatNext == RenderStatCard

StatSpec == Init /\ [][StatNext]_vars

(***************************************************************************)
(* Properties                                                              *)
(***************************************************************************)
RouteOps == {"navigate", "popstate", "initialRoute"}
HomeFragments == {"spinnerHome", "emptyState", "instancesList", "errorHome"}
HomeResults == {"emptyState", "instancesList", "errorHome"}
DetailResults == {"detailView", "errorDetail"}
LiveTimers(kind) == {t \in timers : t.kind = kind}
HomeCycles == {c \in cycles : c.kind = "home"}

\* C1: at most one home refresh timer and at most one detail refresh timer
\* is live at any instant.
C1_AtMostOneLiveTimerPerKind ==
    /\ Cardinality(LiveTimers("home")) <= 1
    /\ Cardinality(LiveTimers("detail")) <= 1

\* C2: a listInstances fetch that was outstanding while the route left Home
\* never has its result written to the mount point, also when the route is
\* Home again by the time it resolves.
C2_StaleHomeResultNotWritten ==
    [][\A c \in cycles :
          (c.kind = "home" /\ c.left /\ ev'.op = "getInstancesOk" /\ ev'.n = c.n)
              => innerHTML' = innerHTML]_vars

\* C3: a result (view or error) written by a render cycle never replaces a
\* result of the same view kind written by a cycle that started later.
C3_OlderResultNeverOverwritesNewer ==
    [][(/\ innerHTML' # innerHTML
        /\ \/ innerHTML.what \in HomeResults /\ innerHTML'.what \in HomeResults
           \/ innerHTML.what \in DetailResults /\ innerHTML'.what \in DetailResults)
          => innerHTML'.by > innerHTML.by]_vars

\* C4: at most one listInstances fetch is in flight at any instant.
C4_AtMostOneHomeFetch == Cardinality(HomeCycles) <= 1

\* C4 witness: a route resolution called renderHome while the fetch of an
\* earlier home render was still outstanding.
C4_Witness ==
    /\ ev.op \in RouteOps
    /\ ev.calls[Len(ev.calls)] = "renderHome"
    /\ IsHomePath(currentRoute)
    /\ \E c \in HomeCycles : c.left

\* C5: every write a render cycle makes to the mount point (spinner, view or
\* error) happens while the current route is the route the cycle was started
\* for.
C5_WritesOnlyOnOwnRoute ==
    [][(innerHTML' # innerHTML /\ innerHTML'.by > 0)
          => IF innerHTML'.what \in HomeFragments
             THEN IsHomePath(currentRoute')
             ELSE currentRoute' = DetailPath(innerHTML'.arg[1])]_vars

\* C6: when listInstances resolves successfully and the current route is not
\* Home, the step leaves the mount point unchanged and arms no home timer.
C6_HomeAbortTouchesNothing ==
    [][(ev'.op = "getInstancesOk" /\ ~IsHomePath(currentRoute))
          => /\ innerHTML' = innerHTML
             /\ timers' = timers
             /\ refreshTimeout' = refreshTimeout]_vars

C6_Witness == ev.op = "getInstancesOk" /\ ~IsHomePath(currentRoute)

\* C7: when both fetches of renderDetail(id) have resolved successfully and
\* the current route is not /instance/id, the step writes nothing to the
\* mount point and arms no detail timer.
C7_DetailAbortTouchesNothing ==
    [][\A c \in cycles :
          (/\ ev'.op = "getInstanceLogsOk" /\ ev'.n = c.n
           /\ currentRoute # DetailPath(c.id))
              => /\ innerHTML' = innerHTML
                 /\ timers' = timers
                 /\ detailRefreshTimeout' = detailRefreshTimeout]_vars

C7_Witness == ev.op = "getInstanceLogsOk" /\ ~StartsWithInstance(currentRoute)

\* C8: a route resolution (navigate, popstate, initial load) leaves no timer
\* live that was live before it.
C8_RouteChangeClearsEveryTimer ==
    [][ev'.op \in RouteOps => timers \cap timers' = {}]_vars

C10_CurrentRouteIsLatestPath == lastPath # << >> => currentRoute = lastPath

\* C10 witness: a fetch is outstanding for a route that a later handleRoute
\* call has replaced.
C10_Witness ==
    /\ lastPath # << >>
    /\ lastPath # RootPath
    /\ currentRoute = lastPath
    /\ \E c \in cycles : c.left

\* No home render cycle is outstanding and no home refresh timer is live.
HomeQuiet == HomeCycles = {} /\ LiveTimers("home") = {}

\* C11: when listInstances fails, the error message is rendered, no home
\* timer is armed or live and no home cycle is outstanding; and from a state
\* with no home cycle and no home timer, only a route resolution (navigate,
\* popstate, initial load) starts a listInstances fetch or leads to a timer.
C11_HomeFailureStopsRefresh ==
    [][/\ ev'.op = "getInstancesFail" =>
            /\ innerHTML' = Html("errorHome", ev'.n, << >>)
            /\ timers' = timers
            /\ HomeQuiet'
       /\ (HomeQuiet /\ ev'.op \notin RouteOps) => HomeQuiet']_vars

C11_Witness ==
    /\ ev.op = "getInstancesFail"
    /\ innerHTML.what = "errorHome"
    /\ IsHomePath(currentRoute)
    /\ HomeQuiet

DetailFailOps == {"getInstanceFail", "getInstanceLogsFail"}

\* C12: when getInstance or getInstanceLogs fails, the error message is
\* shown and, the cycle having ended, no detail refresh timer is live.
C12_DetailFailureLeavesNoTimer ==
    [][ev'.op \in DetailFailOps =>
          /\ innerHTML'.what = "errorDetail"
          /\ innerHTML'.by = ev'.n
          /\ LiveTimers("detail")' = {}]_vars

\* C13: when the mount point shows the error of a failed renderDetail(id)
\* cycle, navigate('/instance/id') starts a new cycle for id: it shows the
\* spinner and awaits a fresh getInstance(id), carrying nothing of the
\* failed cycle.
C13_NavigateAfterFailureStartsFreshCycle ==
    [][\A id \in InstanceIds :
          (/\ ev'.op = "navigate"
           /\ lastPath' = DetailPath(id)
           /\ containerPresent
           /\ ShowsDetailError(St, id))
              => /\ seq' = seq + 1
                 /\ [n |-> seq', kind |-> "detail", id |-> id,
                     pc |-> "getInstance", left |-> FALSE,
                     afterFailure |-> TRUE] \in cycles'
                 /\ innerHTML' = Html("spinnerDetail", seq', <<id>>)
                 /\ currentInstanceId' = id]_vars

\* C13 witness: the cycle started over the error display has had its
\* getInstance succeed and awaits getInstanceLogs.
C13_Witness ==
    \E c \in cycles :
        /\ c.afterFailure
        /\ c.pc = "getInstanceLogs"
        /\ ~c.left
        /\ currentRoute = DetailPath(c.id)

\* C14: when listInstances answers the empty list and the route is Home, the
\* step writes the empty-state message with no panel, and arms the home
\* refresh timer and records its handle.
C14_EmptyListStillArmsTimer ==
    [][\A c \in cycles :
          (/\ c.pc = "getInstances"
           /\ IsHomePath(currentRoute)
           /\ Apply(renderHomeResume(St, c, [ok |-> TRUE, body |-> << >>]),
                    "getInstancesOk", c.n))
              => /\ innerHTML' = Html("emptyState", c.n, << >>)
                 /\ [h |-> c.n, kind |-> "home", id |-> ""] \in timers'
                 /\ refreshTimeout' = c.n
                 /\ Cardinality(timers') = Cardinality(timers) + 1]_vars

C14_Witness ==
    /\ ev.op = "getInstancesOk"
    /\ innerHTML.what = "emptyState"
    /\ innerHTML.arg = << >>
    /\ \E t \in LiveTimers("home") : t.h = innerHTML.by /\ refreshTimeout = t.h

\* C15: renderInProgress is true exactly while a renderHome cycle is
\* outstanding (between setting the flag and the cycle's exit by render,
\* route-mismatch abort or error).
C15_FlagIffHomeCycleOutstanding == renderInProgress <=> HomeCycles # {}

\* C15 witness: a home cycle has just exited by the route-mismatch abort.
C15_Witness ==
    /\ ev.op = "getInstancesOk"
    /\ ~IsHomePath(currentRoute)
    /\ ~renderInProgress
    /\ HomeCycles = {}
    /\ innerHTML.what \notin HomeFragments

CycleNumbers(cs) == {c.n : c \in cs}

\* C16: a renderHome invocation that finds renderInProgress true changes
\* nothing (mount point, flag, timers, timer handles, fetches); a handler
\* that makes such an invocation starts no cycle and writes nothing; and a
\* home cycle only ever starts in a handler that calls renderHome with the
\* flag false (a dropped invocation is not replayed when the cycle ends).
C16_GuardedRenderHomeIsNoOp ==
    [][/\ renderInProgress => [renderHome(St) EXCEPT !.calls = << >>] = St
       /\ (/\ renderInProgress
           /\ ev'.calls # << >>
           /\ ev'.calls[Len(ev'.calls)] = "renderHome")
              => /\ innerHTML' = innerHTML
                 /\ renderInProgress'
                 /\ seq' = seq
                 /\ CycleNumbers(cycles') = CycleNumbers(cycles)
                 /\ timers' \subseteq timers
       /\ CycleNumbers(HomeCycles') # CycleNumbers(HomeCycles) /\ HomeCycles' # {}
              => /\ ~renderInProgress
                 /\ ev'.op \in RouteOps \cup {"timer"}
                 /\ ev'.calls[Len(ev'.calls)] = "renderHome"]_vars

\* C16 witness: a route resolution to Home called renderHome during a home
\* cycle, and the mount point still shows what the other route had written.
C16_Witness ==
    /\ ev.op \in RouteOps
    /\ ev.calls[Len(ev.calls)] = "renderHome"
    /\ renderInProgress
    /\ innerHTML.what \in {"notFound", "spinnerDetail", "detailView", "errorDetail"}
    /\ \E c \in HomeCycles : c.left

\* A path of the form /instance/{id}, and a path that is neither the root
\* nor of that form.
IsDetailShape(path) ==
    Len(path) = 3 /\ path[1] = "" /\ path[2] = "instance" /\ path[3] # ""
IsUnknownPath(path) == path # RootPath /\ ~IsDetailShape(path)

\* C17: a route resolution to a path that is neither the root nor
\* /instance/<id> shows the not-found message with no timer live, and until
\* the next route resolution neither the mount point nor the timers change.
C17_NotFoundIsStable ==
    [][/\ (ev'.op \in RouteOps /\ containerPresent /\ IsUnknownPath(lastPath'))
              => innerHTML'.what = "notFound" /\ timers' = {}
       /\ (/\ ev'.op \notin RouteOps
           /\ IsUnknownPath(currentRoute)
           /\ innerHTML.what = "notFound")
              => innerHTML' = innerHTML /\ timers' = timers]_vars

\* C18: a route resolution sends '/' to renderHome, '/instance/{id}' to
\* renderDetail(id), and for every other path writes the not-found message
\* and starts no fetch.
C18_RouteClassification ==
    [][(ev'.op \in RouteOps /\ containerPresent)
          => /\ lastPath' = RootPath
                   => ev'.calls[Len(ev'.calls)] = "renderHome"
             /\ IsDetailShape(lastPath')
                   => /\ ev'.calls[Len(ev'.calls)] = "renderDetail"
                      /\ currentInstanceId' = lastPath'[3]
             /\ IsUnknownPath(lastPath')
                   => /\ innerHTML' = Html("notFound", 0, << >>)
                      /\ seq' = seq
                      /\ CycleNumbers(cycles') = CycleNumbers(cycles)]_vars

\* C19: the detail view is written only by the step in which getInstanceLogs
\* resolves successfully for a cycle whose getInstance had already resolved
\* successfully; when either fetch fails the cycle ends, writes the error
\* message and arms no timer.
C19_ViewOnlyAfterBothFetches ==
    [][/\ (innerHTML'.what = "detailView" /\ innerHTML' # innerHTML)
              => /\ ev'.op = "getInstanceLogsOk"
                 /\ \E c \in cycles :
                        /\ c.n = ev'.n
                        /\ c.pc = "getInstanceLogs"
                        /\ innerHTML' = Html("detailView", c.n, <<c.id>>)
       /\ \A c \in cycles' :
              (/\ c.pc = "getInstanceLogs"
               /\ c.n \notin CycleNumbers({d \in cycles : d.pc = "getInstanceLogs"}))
                  => ev'.op = "getInstanceOk" /\ ev'.n = c.n
       /\ ev'.op \in DetailFailOps
              => /\ innerHTML'.what = "errorDetail"
                 /\ innerHTML'.by = ev'.n
                 /\ ev'.n \notin CycleNumbers(cycles')
                 /\ timers' = timers
                 /\ detailRefreshTimeout' = detailRefreshTimeout]_vars

\* C19 witness: getInstance succeeded and getInstanceLogs failed; the error
\* message is shown.
C19_Witness ==
    /\ ev.op = "getInstanceLogsFail"
    /\ innerHTML.what = "errorDetail"
    /\ innerHTML.by = ev.n
    /\ currentRoute = DetailPath(innerHTML.arg[1])

\* C20: a detail refresh timer becomes live only in the step in which a
\* renderDetail(id) cycle writes the detail view, with the current route
\* /instance/id; and when it fires, renderDetail is called with that id.
C20_DetailTimerArming ==
    [][/\ \A t \in timers' \ timers :
              t.kind = "detail"
                  => /\ ev'.op = "getInstanceLogsOk"
                     /\ t.h = ev'.n
                     /\ innerHTML' = Html("detailView", t.h, <<t.id>>)
                     /\ currentRoute' = DetailPath(t.id)
                     /\ detailRefreshTimeout' = t.h
       /\ \A t \in timers \ timers' :
              (ev'.op = "timer" /\ ev'.n = t.h /\ t.kind = "detail")
                  => /\ ev'.calls = <<"renderDetail">>
                     /\ seq' = seq + 1
                     /\ currentInstanceId' = t.id
                     /\ \E c \in cycles' :
                            /\ c.n = seq' /\ c.kind = "detail"
                            /\ c.id = t.id /\ c.pc = "getInstance"]_vars

\* C20 witness: a detail timer has fired and its renderDetail(id) awaits
\* getInstance(id), on the route /instance/id.
C20_Witness ==
    /\ ev.op = "timer"
    /\ ev.calls = <<"renderDetail">>
    /\ \E c \in cycles :
           /\ c.n = seq /\ c.kind = "detail" /\ c.pc = "getInstance"
           /\ currentRoute = DetailPath(c.id)
           /\ innerHTML = Html("spinnerDetail", c.n, <<c.id>>)

PollOps == {"timer", "getInstancesOk", "getInstanceOk", "getInstanceLogsOk"}

\* From some instant on the route is Home (is /instance/id) and no route
\* resolution is taken any more.
HomeStays == IsHomePath(currentRoute) /\ ev.op \in PollOps
DetailStays(id) == currentRoute = DetailPath(id) /\ ev.op \in PollOps

\* A refresh timer has just fired and started a render cycle of the view.
HomeRenderStarts ==
    /\ ev.op = "timer"
    /\ ev.calls = <<"renderHome">>
    /\ \E c \in HomeCycles : innerHTML = Html("spinnerHome", c.n, << >>)
DetailRenderStarts(id) ==
    /\ ev.op = "timer"
    /\ ev.calls = <<"renderDetail">>
    /\ \E c \in cycles :
           /\ c.kind = "detail" /\ c.id = id /\ c.pc = "getInstance"
           /\ innerHTML = Html("spinnerDetail", c.n, <<id>>)

\* A render cycle of the view has just completed: it has written the view.
HomeRenderCompleted ==
    /\ ev.op = "getInstancesOk"
    /\ innerHTML.by = ev.n
    /\ innerHTML.what \in {"emptyState", "instancesList"}
DetailRenderCompleted(id) ==
    /\ ev.op = "getInstanceLogsOk"
    /\ innerHTML = Html("detailView", ev.n, <<id>>)

\* C21: while the route stays Home (stays /instance/id) with no further
\* route resolution and every fetch succeeding, each completed render
\* leaves its refresh timer armed and tracked, and render cycles of the
\* view are started by a timer infinitely often, as are completed renders.
C21_PollingContinues ==
    /\ [](HomeRenderCompleted =>
              /\ [h |-> ev.n, kind |-> "home", id |-> ""] \in timers
              /\ refreshTimeout = ev.n)
    /\ \A id \in InstanceIds :
           [](DetailRenderCompleted(id) =>
                 /\ [h |-> ev.n, kind |-> "detail", id |-> id] \in timers
                 /\ detailRefreshTimeout = ev.n)
    /\ <>[]HomeStays => ([]<>HomeRenderStarts /\ []<>HomeRenderCompleted)
    /\ \A id \in InstanceIds :
           <>[]DetailStays(id) =>
               ([]<>DetailRenderStarts(id) /\ []<>DetailRenderCompleted(id))

\* C21 witness: on the route /instance/id a refresh timer has fired and
\* started a cycle while the timer of an overlapping cycle is still armed.
C21_Witness ==
    /\ DetailRenderStarts("a")
    /\ DetailStays("a")
    /\ LiveTimers("detail") # {}

\* C22: a launchInstance that gets a non-success response fails with the
\* server's message (the body's message field, else its error field) when
\* the body parses and has one, and with the generic message and the status
\* code otherwise.
C22_LaunchFailureCarriesServerMessage ==
    (/\ apiCall.pc = "done"
     /\ apiCall.op = "launchInstance"
     /\ apiCall.response \in Responses
     /\ ~ResponseOk(apiCall.response))
        => /\ apiCall.result.kind = "failed"
           /\ LET b == apiCall.response.body
              IN  IF b.parses /\ (b.message # "" \/ b.error # "")
                  THEN apiCall.result.text =
                           (IF b.message # "" THEN b.message ELSE b.error)
                  ELSE /\ apiCall.result.text = "Failed to launch instance"
                       /\ apiCall.result.status = apiCall.response.status

\* C23: an invocation of an api operation issues one request and no second
\* one; it returns the parsed body only of a success response, and fails
\* when the response status is non-success.
C23_OneRequestPerInvocation ==
    /\ apiCall.pc # "idle" => apiCall.requests = 1
    /\ apiCall.pc = "done" =>
          /\ apiCall.result.kind \in {"returned", "failed"}
          /\ apiCall.result.kind = "returned" =>
                /\ ResponseOk(apiCall.response)
                /\ apiCall.response.body.parses
                /\ apiCall.result.body = apiCall.response.body
          /\ ~ResponseOk(apiCall.response) => apiCall.result.kind = "failed"

\* C23 witness: an operation has failed on a non-success response.
C23_Witness ==
    /\ apiCall.pc = "done"
    /\ apiCall.op = "killInstance"
    /\ apiCall.response \in Responses
    /\ ~ResponseOk(apiCall.response)
    /\ apiCall.result = Failed("Failed to kill instance", 0)
    /\ apiCall.requests = 1

\* C24: no handler ends with an exception in flight (the promise of a
\* render procedure, and so that of handleRoute, never rejects); a failed
\* getInstances ends its cycle with the home error message written and the
\* flag reset, a failed getInstance or getInstanceLogs ends its cycle with
\* the detail error message written.
C24_NoFailureEscapesRender ==
    [][/\ ~ev'.rejected
       /\ ev'.op = "getInstancesFail" =>
             /\ innerHTML' = Html("errorHome", ev'.n, << >>)
             /\ ev'.n \notin CycleNumbers(cycles')
             /\ ~renderInProgress'
       /\ ev'.op \in DetailFailOps =>
             \E c \in cycles :
                 /\ c.n = ev'.n
                 /\ innerHTML' = Html("errorDetail", c.n, <<c.id>>)
                 /\ c.n \notin CycleNumbers(cycles')]_vars

\* C24 witness: getInstances failed after the route had left Home; the
\* failure was caught and shown, and the flag is reset.
C24_Witness ==
    /\ ev.op = "getInstancesFail"
    /\ ~ev.rejected
    /\ innerHTML = Html("errorHome", ev.n, << >>)
    /\ ~renderInProgress
    /\ ~IsHomePath(currentRoute)

\* C25: however often init() is called, one popstate listener is registered
\* (none before the first call), the initial-route timer is armed by the
\* first call only, and the initial handleRoute runs once, for the path the
\* browser is at.
C25_InitialRouteOnce ==
    [][/\ listeners' = (IF initialized' THEN 1 ELSE 0)
       /\ initialized => initialized'
       /\ initTimer' > initTimer =>
             /\ ev'.op = "init"
             /\ ~initialized
             /\ initTimer = 0 /\ initTimer' = 1
       /\ ev'.op = "initialRoute" =>
             /\ initialized
             /\ initTimer = 1 /\ initTimer' = 0
             /\ lastPath' = location]_vars

\* C25 witness: init() has been called again after the initial route was
\* resolved.
C25_Witness ==
    /\ ev.op = "init"
    /\ initialized
    /\ listeners = 1
    /\ initTimer = 0
    /\ lastPath # << >>

\* C26: when getInstances answers a non-empty list and the route is Home,
\* the markup written has as many panels as the list has entries, and its
\* i-th panel is the panel of the list's i-th entry.
C26_PanelsInListOrder ==
    [][\A c \in cycles : \A body \in InstanceLists :
          (/\ c.pc = "getInstances"
           /\ IsHomePath(currentRoute)
           /\ Len(body) > 0
           /\ Apply(renderHomeResume(St, c, [ok |-> TRUE, body |-> body]),
                    "getInstancesOk", c.n))
              => /\ innerHTML'.what = "instancesList"
                 /\ innerHTML'.by = c.n
                 /\ Len(innerHTML'.arg) = Len(body)
                 /\ \A i \in 1..Len(body) :
                        innerHTML'.arg[i] = instancePanel(body[i])]_vars

\* C26 witness: the list <<b, a>> has been rendered, b's panel first.
C26_Witness ==
    /\ ev.op = "getInstancesOk"
    /\ innerHTML.what = "instancesList"
    /\ innerHTML.arg = <<instancePanel("b"), instancePanel("a")>>

\* C27: the duration shown is the whole number of minutes nearest to
\* duration_secs / 60, the greater one when two are equally near; absent
\* stats count as 0 seconds; 125 seconds are shown as 2.
C27_DurationRoundedToMinutes ==
    statCard.rendered =>
        LET secs == IF statCard.stats.present
                    THEN statCard.stats.duration_secs
                    ELSE 0
            m == statCard.shown
        IN  /\ m \in Nat
            /\ secs - 60 * m < 30
            /\ 60 * m - secs <= 30
            /\ secs = 125 => m = 2
            /\ ~statCard.stats.present => m = 0

\* C27 witness: 90 seconds, halfway between 1 and 2 minutes, shown as 2.
C27_Witness ==
    /\ statCard.rendered
    /\ statCard.stats = [present |-> TRUE, duration_secs |-> 90]
    /\ statCard.shown = 2

\* C28: when a detail refresh timer armed for id fires, the current route
\* is /instance/id.
C28_DetailTimerFiresOnOwnRoute ==
    [][\A t \in timers :
          (ev'.op = "timer" /\ ev'.n = t.h /\ t.kind = "detail")
              => currentRoute = DetailPath(t.id)]_vars

\* C29: no home refresh timer is live while renderInProgress is true, so a
\* home timer that fires finds the flag false; a renderHome call that finds
\* the flag true is made by a route resolution (navigate, popstate, initial
\* load).
C29_HomeTimerNeverFiresDuringRender ==
    [][/\ renderInProgress' => LiveTimers("home")' = {}
       /\ (ev'.op = "timer" /\ ev'.calls = <<"renderHome">>)
              => /\ ~renderInProgress
                 /\ renderInProgress'
                 /\ seq' = seq + 1
       /\ (/\ renderInProgress
           /\ ev'.calls # << >>
           /\ ev'.calls[Len(ev'.calls)] = "renderHome")
              => ev'.op \in RouteOps]_vars

\* C29 witness: a home refresh timer has fired and its renderHome has set
\* the flag and awaits getInstances.
C29_Witness ==
    /\ ev.op = "timer"
    /\ ev.calls = <<"renderHome">>
    /\ renderInProgress
    /\ innerHTML = Html("spinnerHome", seq, << >>)
    /\ \E c \in HomeCycles : c.n = seq

\* What is written belongs to the route: a spinner, view or error message
\* of the route's render procedure.  And: it is a view or an error message.
BelongsTo(h, route) ==
    IF IsHomePath(route)
    THEN h.what \in HomeFragments
    ELSE /\ IsDetailShape(route)
         /\ h.what \in {"spinnerDetail"} \cup DetailResults
         /\ h.arg = <<SplitId(route)>>
IsResult(h) == h.what \in HomeResults \cup DetailResults

\* C30: once the mount point shows the view or the error message of the
\* current route (Home or /instance/id), then until the next route
\* resolution it shows nothing but content of that route.
C30_SettledViewStaysOfItsRoute ==
    [][(/\ ev'.op \notin RouteOps
        /\ BelongsTo(innerHTML, currentRoute)
        /\ IsResult(innerHTML))
          => BelongsTo(innerHTML', currentRoute')]_vars

\* C31: while the current route is /instance/id and a render has been
\* started for it, currentInstanceId is id, and no timer that is live would,
\* on firing, leave currentInstanceId with another value.
C31_CurrentInstanceIdIsRouteId ==
    \A id \in InstanceIds :
        (currentRoute = DetailPath(id) /\ innerHTML.what # "blank")
            => /\ currentInstanceId = id
               /\ \A t \in timers :
                      timerCallback(St, t).currentInstanceId = id

\* The cycles that await getInstance, and those that await getInstanceLogs.
AwaitingInstance(cs) == CycleNumbers({c \in cs : c.pc = "getInstance"})
AwaitingLogs(cs) == CycleNumbers({c \in cs : c.pc = "getInstanceLogs"})

\* C32: a renderDetail cycle comes to await getInstanceLogs only in the
\* step in which its own getInstance resolves successfully, and it asks
\* for the logs of the same id; a cycle whose getInstance fails ends
\* without ever awaiting getInstanceLogs.
C32_LogsOnlyAfterInstance ==
    [][/\ \A n \in AwaitingLogs(cycles') \ AwaitingLogs(cycles) :
              /\ ev'.op = "getInstanceOk"
              /\ ev'.n = n
              /\ n \in AwaitingInstance(cycles)
              /\ \A c \in cycles : \A d \in cycles' :
                     (c.n = n /\ d.n = n) => d.id = c.id
       /\ ev'.op = "getInstanceOk" =>
              /\ ev'.n \in AwaitingInstance(cycles)
              /\ ev'.n \in AwaitingLogs(cycles')
       /\ ev'.op = "getInstanceFail" =>
              /\ ev'.n \in AwaitingInstance(cycles)
              /\ ev'.n \notin CycleNumbers(cycles')
              /\ AwaitingLogs(cycles') = AwaitingLogs(cycles)]_vars

\* C32 witness: getInstance has resolved and the cycle awaits the logs,
\* still on its route.
C32_Witness ==
    /\ ev.op = "getInstanceOk"
    /\ \E c \in cycles :
           /\ c.n = ev.n /\ c.pc = "getInstanceLogs" /\ ~c.left
           /\ innerHTML = Html("spinnerDetail", c.n, <<c.id>>)

\* C33: the step in which a cycle aborts on its route check after the
\* fetches (getInstances resolved and the route is not Home; getInstanceLogs
\* resolved and the route is not the cycle's) leaves currentRoute, the
\* mount point, both timer handles, the live timers and currentInstanceId
\* as they were and only ends the cycle; the home abort resets
\* renderInProgress, the detail abort leaves it.
C33_AbortChangesNothingOfNewerRoute ==
    [][\A c \in cycles :
          (/\ ev'.n = c.n
           /\ \/ ev'.op = "getInstancesOk" /\ ~IsHomePath(currentRoute)
              \/ ev'.op = "getInstanceLogsOk" /\ currentRoute # DetailPath(c.id))
              => /\ currentRoute' = currentRoute
                 /\ innerHTML' = innerHTML
                 /\ refreshTimeout' = refreshTimeout
                 /\ detailRefreshTimeout' = detailRefreshTimeout
                 /\ timers' = timers
                 /\ currentInstanceId' = currentInstanceId
                 /\ cycles' = cycles \ {c}
                 /\ renderInProgress' =
                        (IF c.kind = "home" THEN FALSE ELSE renderInProgress)]_vars

\* C33 witness: a home cycle has aborted while the detail view of the newer
\* route is shown and its refresh timer is armed and tracked.
C33_Witness ==
    /\ ev.op = "getInstancesOk"
    /\ innerHTML.what = "detailView"
    /\ currentRoute = DetailPath(innerHTML.arg[1])
    /\ \E t \in LiveTimers("detail") :
           t.h = detailRefreshTimeout /\ t.h = innerHTML.by
    /\ ~renderInProgress

\* C34: the handler that runs when the last fetch of a cycle resolves reads
\* one and the same currentRoute in its two checks, so the second check
\* passes whenever it is reached: the cycle arms and tracks its timer if and
\* only if it has written its view (home and detail).
C34_TimerArmedIffViewWritten ==
    [][/\ ev'.op \in {"getInstancesOk", "getInstanceLogsOk"}
             => currentRoute' = currentRoute
       /\ RouteLeftHome(St) <=> ~StillOnHome(St)
       /\ \A id \in InstanceIds :
              RouteLeftDetail(St, id) <=> ~StillOnDetail(St, id)
       /\ ev'.op = "getInstancesOk" =>
              ((/\ innerHTML'.by = ev'.n
                /\ innerHTML'.what \in {"emptyState", "instancesList"})
               <=> (/\ [h |-> ev'.n, kind |-> "home", id |-> ""] \in timers'
                    /\ refreshTimeout' = ev'.n))
       /\ ev'.op = "getInstanceLogsOk" =>
              \A c \in cycles :
                  c.n = ev'.n =>
                      (innerHTML' = Html("detailView", c.n, <<c.id>>)
                       <=> (/\ [h |-> c.n, kind |-> "detail", id |-> c.id]
                                  \in timers'
                            /\ detailRefreshTimeout' = c.n))]_vars

\* C34 witness: a home cycle has written the list and armed its timer while
\* a cycle of a route that was left is still outstanding.
C34_Witness ==
    /\ ev.op = "getInstancesOk"
    /\ innerHTML.what = "instancesList"
    /\ innerHTML.by = ev.n
    /\ [h |-> ev.n, kind |-> "home", id |-> ""] \in timers
    /\ \E c \in cycles : c.kind = "detail" /\ c.left
(***************************************************************************)
(* The basic revision.                                                     *)
(***************************************************************************)
BasicPending(kind) == {t \in basic.timers : t.kind = kind}

\* C35: in the basic revision at most one refresh timer is pending per view
\* kind at any instant, whatever the navigations.
C35_OneLiveTimerPerKind ==
    \A kind \in {"home", "detail"} : Cardinality(BasicPending(kind)) <= 1

\* The route a refresh timer of the basic revision was armed for.
ArmedFor(t) == IF t.kind = "home" THEN RootPath ELSE DetailPath(t.id)

\* C36: a firing refresh timer of the basic revision calls its render
\* procedure, which shows the spinner and issues the first fetch of a new
\* render, exactly when currentRoute is the route it was armed for;
\* otherwise the firing issues no fetch, leaves the mount point as it is
\* and arms no timer.
C36_CallbackChecksRouteAtFiring ==
    [][\A t \in basic.timers :
          (basic'.ev.op = "timer" /\ basic'.ev.n = t.h
              /\ t \notin basic'.timers)
          => IF basic.currentRoute = ArmedFor(t)
             THEN /\ basic'.seq = basic.seq + 1
                  /\ basic'.cycles = basic.cycles \cup
                        {BasicCycle(basic'.seq, t.kind, t.id,
                            IF t.kind = "home" THEN "getInstances"
                                               ELSE "getInstance")}
                  /\ basic'.innerHTML.by = basic'.seq
                  /\ basic'.timers = basic.timers \ {t}
             ELSE /\ basic'.seq = basic.seq
                  /\ basic'.cycles = basic.cycles
                  /\ basic'.innerHTML = basic.innerHTML
                  /\ basic'.timers = basic.timers \ {t}
                  /\ basic'.currentRoute = basic.currentRoute]_vars

\* a refresh timer has fired on a route it was not armed for, and has left
\* the page as the not-found view that was showing
C36_Witness ==
    /\ basic.ev.op = "timer"
    /\ basic.ev.calls = << >>
    /\ basic.innerHTML.what = "notFound"
    /\ basic.cycles = {}

\* Both routers have handled the initial route.
BothRouted == initialized /\ initTimer = 0 /\ basic.listeners > 0

\* C37: on navigation-free runs from the same path with the same successful
\* responses the two revisions issue the same fetches and write the same
\* contents: the k-th render of each asks for the same thing, what the k-th
\* render of each has written is the same, and a revision that has come to
\* rest has started as many renders as the other.
C37_AdvancedRefinesBasic ==
    /\ \A c \in cycles : \A d \in basic.cycles :
          c.n = d.n => (c.kind = d.kind /\ c.id = d.id /\ c.pc = d.pc)
    /\ (BothRouted /\ innerHTML.by = basic.innerHTML.by)
          => (innerHTML.what = basic.innerHTML.what
                /\ innerHTML.arg = basic.innerHTML.arg)
    /\ BasicEnded => seq <= basic.seq
    /\ AdvancedEnded => basic.seq <= seq

====
